---- MODULE Spec2Model ----
(***************************************************************************)
(* Windowed health analytics of print-nanny-dataflow.                      *)
(*                                                                         *)
(*   metrics/area_of_interest.py : calc_percent_intersection,              *)
(*                                 filter_box_annotations                  *)
(*   transforms/health.py        : health_score_trend_polynomial_v1,       *)
(*                                 ExplodeWindowedHealthRecord,            *)
(*                                 FilterBoxAnnotations,                   *)
(*                                 SortWindowedHealthDataframe,            *)
(*                                 CreateVideoRenderMessage,               *)
(*                                 MonitorHealthStateful                   *)
(*   pipelines/sliding_window_health.py : the chain of transforms          *)
(*                                                                         *)
(* Floats are fixed-point: a score s is the integer s * Scale, a ratio is  *)
(* the pair [num, den] of the two areas that the code divides.             *)
(***************************************************************************)
EXTENDS Integers, Sequences, FiniteSets, TLC

VARIABLES geo, flt, dofn, exp, agg, pane, failures, fired, mon, published, terminal, panes, render,
          flow

pure == <<geo, flt, dofn, exp, agg, pane>>
stateful == <<failures, fired, mon, published, terminal, panes, render>>
vars == <<pure, stateful, flow>>

(***************************************************************************)
(* Bounds of the model.                                                    *)
(***************************************************************************)
GridMax == 2
MaxDet == 2
MaxBatch == 2
MaxRecords == 3
MaxFirings == 3

(***************************************************************************)
(* Program constants.                                                      *)
(***************************************************************************)
Scale == 100
MinCalibrationAreaOverlap == 75
MinScoreThreshold == 66

None == [kind |-> "None"]

Max(a, b) == IF a >= b THEN a ELSE b
Min(a, b) == IF a <= b THEN a ELSE b

(***************************************************************************)
(* CATEGORY_INDEX[class]["health_weight"]: the signed weight of a class.   *)
(* coders/types.py is not part of the sources at hand; the table has a     *)
(* healthy class, an unhealthy class and a neutral class.                  *)
(***************************************************************************)
Classes == {1, 2, 3}
CATEGORY_INDEX(c) ==
    CASE c = 1 -> [health_weight |-> 1]
      [] c = 2 -> [health_weight |-> -1]
      [] c = 3 -> [health_weight |-> 0]

(***************************************************************************)
(* Geometry: calc_percent_intersection.                                    *)
(***************************************************************************)
Coords == 0..GridMax
Boxes == {b \in Coords \X Coords \X Coords \X Coords : b[1] <= b[3] /\ b[2] <= b[4]}

\* How the coordinates of a box are held decides what x / 0 does: Python
\* floats raise ZeroDivisionError, numpy floats give nan and a warning.
Arithmetics == {"python", "numpy"}

Ratio(n, d) == [kind |-> "float", num |-> n, den |-> d]
NaN == [kind |-> "nan"]
Raised(e) == [kind |-> "raised", error |-> e]

\* intersection_area / box_area, lines 39-43; the test against 1.0 stores 1.0
TrueDivide(n, d, arith) ==
    IF d = 0
    THEN IF arith = "python" THEN Raised("ZeroDivisionError") ELSE NaN
    ELSE IF n = d THEN Ratio(1, 1) ELSE Ratio(n, d)

\* one iteration of the loop of calc_percent_intersection, lines 19-43
percent_intersection_of(box, aoi_coords, arith) ==
    LET x_left == Max(aoi_coords[1], box[1])
        y_top == Max(aoi_coords[2], box[2])
        x_right == Min(aoi_coords[3], box[3])
        y_bottom == Min(aoi_coords[4], box[4])
        intersection_area == (x_right - x_left) * (y_bottom - y_top)
        box_area == (box[3] - box[1]) * (box[4] - box[2])
    IN  IF x_right < x_left \/ y_bottom < y_top
        THEN Ratio(0, 1)
        ELSE TrueDivide(intersection_area, box_area, arith)

\* the array aou, or the error that ends the loop
calc_percent_intersection(detection_boxes, aoi_coords, arith) ==
    LET aou == [i \in 1..Len(detection_boxes) |->
                    percent_intersection_of(detection_boxes[i], aoi_coords, arith)]
    IN  IF \E i \in 1..Len(aou) : aou[i].kind = "raised"
        THEN Raised("ZeroDivisionError")
        ELSE [kind |-> "array", values |-> aou]

(***************************************************************************)
(* Detection Filter: filter_box_annotations.                               *)
(***************************************************************************)
ScoreValues == {50, MinScoreThreshold, 90}
FilterBoxes == {<<0, 0, 1, 1>>, <<0, 0, 2, 1>>, <<1, 1, 2, 2>>}
Detections == [score : ScoreValues, class : Classes, box : FilterBoxes]

SeqsUpTo(S, n) == UNION {[1..k -> S] : k \in 0..n}

\* the index-aligned arrays of a BoxAnnotations / DetectionSet
BoxAnnotations(dets) ==
    [num_detections |-> Len(dets),
     detection_scores |-> [i \in 1..Len(dets) |-> dets[i].score],
     detection_boxes |-> [i \in 1..Len(dets) |-> dets[i].box],
     detection_classes |-> [i \in 1..Len(dets) |-> dets[i].class]]

DetectionSets == {BoxAnnotations(d) : d \in SeqsUpTo(Detections, MaxDet)}

DeviceCalibration(coordinates) ==
    [kind |-> "DeviceCalibration", coordinates |-> coordinates]
\* a generator object: the body of load_calibration has not run yet
Generator(items) == [kind |-> "generator", items |-> items]

AoiCoords == {<<0, 0, 1, 2>>, <<1, 0, 2, 2>>}
Calibrations == {None} \cup {DeviceCalibration(c) : c \in AoiCoords}

\* `if calibration:` None is false; a message object and a generator are true
Truthy(v) == v.kind # "None"
HasAttr(v, attr) == attr \in DOMAIN v

\* array[mask] of numpy: the entries whose mask is true, in order
RECURSIVE Compress(_, _)
Compress(array, mask) ==
    IF array = <<>> THEN <<>>
    ELSE IF Head(mask)
         THEN <<Head(array)>> \o Compress(Tail(array), Tail(mask))
         ELSE Compress(Tail(array), Tail(mask))

\* detection_scores > min_score_threshold, line 67
ScoreMaskGe(detection_scores, min_score_threshold) ==
    [i \in 1..Len(detection_scores) |-> detection_scores[i] >= min_score_threshold]
ScoreMask(detection_scores, min_score_threshold) ==
    [i \in 1..Len(detection_scores) |-> detection_scores[i] > min_score_threshold]

\* numpy's bitwise_and has no loop for floating-point operands
bitwise_and(dtype_a, dtype_b) ==
    IF {dtype_a, dtype_b} \subseteq {"bool", "int64"}
    THEN [kind |-> "array"]
    ELSE Raised("TypeError")

\* lines 61-65: & binds tighter than < and >, so the expression is the chain
\*   percent_intersection < (min_calibration_area_overlap & detection_scores)
\*                        > min_score_threshold
\* whose middle operand is evaluated first: a Python float & a float64 array
\* (np.array of scores, the empty list included).
CalibratedMask(percent_intersection, detection_scores) ==
    LET middle == bitwise_and("float", "float64")
    IN  IF middle.kind = "raised" THEN middle
        ELSE IF Len(detection_scores) > 1
             THEN Raised("ValueError")  \* truth value of an array in a chain
             ELSE [kind |-> "array", values |-> [i \in 1..Len(detection_scores) |-> FALSE]]

\* lines 69-87, given the mask
Filtered(element, ignored_mask) ==
    LET filtered_detection_boxes == Compress(element.detection_boxes, ignored_mask)
        filtered_detection_scores == Compress(element.detection_scores, ignored_mask)
        filtered_detection_classes == Compress(element.detection_classes, ignored_mask)
    IN  [kind |-> "BoxAnnotations",
         num_detections |-> Cardinality({i \in 1..Len(ignored_mask) : ignored_mask[i]}),
         detection_scores |-> filtered_detection_scores,
         detection_boxes |-> filtered_detection_boxes,
         detection_classes |-> filtered_detection_classes,
         health_weights |-> [i \in 1..Len(filtered_detection_classes) |->
                               CATEGORY_INDEX(filtered_detection_classes[i]).health_weight]]

filter_box_annotations(element, calibration, arith) ==
    IF Truthy(calibration)
    THEN IF ~HasAttr(calibration, "coordinates")
         THEN Raised("AttributeError")
         ELSE LET percent_intersection ==
                      calc_percent_intersection(element.detection_boxes,
                                                calibration.coordinates, arith)
              IN  IF percent_intersection.kind = "raised"
                  THEN percent_intersection
                  ELSE LET ignored_mask ==
                               CalibratedMask(percent_intersection, element.detection_scores)
                       IN  IF ignored_mask.kind = "raised"
                           THEN ignored_mask
                           ELSE Filtered(element, ignored_mask.values)
    ELSE Filtered(element, ScoreMask(element.detection_scores, MinScoreThreshold))

(***************************************************************************)
(* FilterBoxAnnotations: the DoFn around filter_box_annotations.           *)
(***************************************************************************)
Devices == {"d1", "d2"}
\* the calibration store: the devices that have a calibration.json
Stores == [Devices -> Calibrations]

\* load_calibration has a yield in its body, so calling it returns a
\* generator whatever the store holds; nothing of the body runs at the call
load_calibration(store, element) ==
    Generator(IF store[element.octoprint_device_id] = None
              THEN <<>>
              ELSE <<store[element.octoprint_device_id]>>)

AnnotatedMonitoringImage(device, dets) ==
    [octoprint_device_id |-> device] @@ BoxAnnotations(dets)

\* process: the session and the filtered elements, or the first error
FilterBoxAnnotations_process(store, keyed_elements, arith) ==
    LET session == keyed_elements[1]
        elements == keyed_elements[2]
        calibration == load_calibration(store, elements[1])
        mapped == [i \in 1..Len(elements) |->
                     filter_box_annotations(elements[i], calibration, arith)]
    IN  IF \E i \in 1..Len(mapped) : mapped[i].kind = "raised"
        THEN LET first == CHOOSE i \in 1..Len(mapped) :
                              /\ mapped[i].kind = "raised"
                              /\ \A j \in 1..(i - 1) : mapped[j].kind # "raised"
             IN  mapped[first]
        ELSE [kind |-> "output", session |-> session, elements |-> mapped]

(***************************************************************************)
(* Health Record Exploder: ExplodeWindowedHealthRecord.process.            *)
(***************************************************************************)
Sessions == {"s1", "s2"}
Timestamps == 1..3
\* window.start and window.end of the window being processed
Windows == {[start |-> 0, end |-> 4], [start |-> 2, end |-> 6]}
ExplodeScores == {80, 90}
ExplodeDetections == [score : ExplodeScores, class : Classes]

\* a NestedTelemetryEvent: arrays of which the first num_detections count
NestedTelemetryEvents ==
    {[client_version |-> "v1", print_session |-> session, user_id |-> 7,
      octoprint_device_id |-> "d1", cloudiot_device_id |-> "c1", ts |-> ts,
      num_detections |-> n,
      detection_scores |-> [i \in 1..Len(dets) |-> dets[i].score],
      detection_classes |-> [i \in 1..Len(dets) |-> dets[i].class]] :
        <<session, ts, dets, n>> \in
            {q \in Sessions \X Timestamps \X SeqsUpTo(ExplodeDetections, MaxDet) \X (0..MaxDet) :
                q[4] <= Len(q[3])}}

Metadata(element, window_start, window_end) ==
    [client_version |-> element.client_version,
     print_session |-> element.print_session,
     user_id |-> element.user_id,
     octoprint_device_id |-> element.octoprint_device_id,
     cloudiot_device_id |-> element.cloudiot_device_id,
     window_start |-> window_start,
     window_end |-> window_end]

WindowedHealthRecord(metadata, ts, print_session, detection_score, detection_class) ==
    [metadata |-> metadata, ts |-> ts, print_session |-> print_session,
     detection_score |-> detection_score, detection_class |-> detection_class,
     health_weight |-> CATEGORY_INDEX(detection_class).health_weight,
     health_score |-> CATEGORY_INDEX(detection_class).health_weight * detection_score]

\* range(1, element.num_detections): the first detection is skipped
ExplodeSkippingFirst(element, window) ==
    LET metadata == Metadata(element, window.start, window.end)
    IN  [i \in 1..(IF element.num_detections = 0 THEN 0 ELSE element.num_detections - 1) |->
            WindowedHealthRecord(metadata, element.ts, element.print_session,
                                 element.detection_scores[i + 1],
                                 element.detection_classes[i + 1])]

\* the list of lines 133-149: one record for i in range(0, num_detections)
ExplodeWindowedHealthRecord_process(element, window) ==
    LET metadata == Metadata(element, window.start, window.end)
    IN  [i \in 1..element.num_detections |->
            WindowedHealthRecord(metadata, element.ts, element.print_session,
                                 element.detection_scores[i],
                                 element.detection_classes[i])]

(***************************************************************************)
(* Session Trend Aggregator: health_score_trend_polynomial_v1 and          *)
(* SortWindowedHealthDataframe.                                            *)
(***************************************************************************)
RECURSIVE SumSeq(_)
SumSeq(q) == IF q = <<>> THEN 0 ELSE Head(q) + SumSeq(Tail(q))

RECURSIVE SortedIndex(_)
\* the elements of a set of integers in ascending order
SortedIndex(S) ==
    IF S = {} THEN <<>>
    ELSE LET least == CHOOSE t \in S : \A u \in S : t <= u
         IN  <<least>> \o SortedIndex(S \ {least})

SetMax(S) == CHOOSE v \in S : \A u \in S : u <= v
SetMin(S) == CHOOSE v \in S : \A u \in S : v <= u

\* df[df["health_weight"] > 0] and df[df["health_weight"] < 0]
PositiveRows(df) == SelectSeq(df, LAMBDA r : r.health_weight > 0)
NegativeRows(df) == SelectSeq(df, LAMBDA r : r.health_weight < 0)

GroupKeys(rows) == {rows[i].ts : i \in 1..Len(rows)}
GroupScores(rows, t) == {rows[i].health_score : i \in {j \in 1..Len(rows) : rows[j].ts = t}}
\* .groupby(["ts"])["health_score"].max() and .min(): a Series indexed by ts
GroupByMax(rows) == [t \in GroupKeys(rows) |-> SetMax(GroupScores(rows, t))]
GroupByMin(rows) == [t \in GroupKeys(rows) |-> SetMin(GroupScores(rows, t))]

\* a.add(b, fill_value=fill): the union of the two indices, a missing side
\* counted as fill
SeriesAdd(a, b, fill) ==
    [t \in (DOMAIN a) \cup (DOMAIN b) |->
        (IF t \in DOMAIN a THEN a[t] ELSE fill) + (IF t \in DOMAIN b THEN b[t] ELSE fill)]

\* the series without .cumsum()
NoCumSum(series) ==
    LET index == SortedIndex(DOMAIN series)
    IN  [index |-> index, values |-> [j \in 1..Len(index) |-> series[index[j]]]]
\* .cumsum(): the running sum along the (ascending) index
CumSum(series) ==
    LET index == SortedIndex(DOMAIN series)
    IN  [index |-> index,
         values |-> [j \in 1..Len(index) |->
                        SumSeq([k \in 1..j |-> series[index[k]]])]]

\* xy of lines 44-53
Trajectory(df) ==
    CumSum(SeriesAdd(GroupByMax(PositiveRows(df)), GroupByMin(NegativeRows(df)), 0))

\* What of numpy decides the outcome of a fit on one distinct x: whether
\* Polynomial.fit widens a domain [t, t] before mapping x into the window
\* (if not, x maps to nan and lstsq raises LinAlgError), and whether
\* LinAlgError derives from ValueError or from Exception.
NumpyBuilds ==
    {[widens_domain |-> TRUE, LinAlgError_base |-> "ValueError"],
     [widens_domain |-> FALSE, LinAlgError_base |-> "ValueError"],
     [widens_domain |-> FALSE, LinAlgError_base |-> "Exception"]}

IsInstance(error, class, numpy) ==
    \/ error = class
    \/ error = "LinAlgError" /\ numpy.LinAlgError_base = class

RECURSIVE Power(_, _)
Power(x, k) == IF k = 0 THEN 1 ELSE x * Power(x, k - 1)

\* The least-squares coefficients are the solution of the normal equations,
\* which the moments of the data fix: sum x^k (k <= 2 deg), sum x^k y (k <= deg).
NormalEquations(x, y, deg) ==
    [gram |-> [k \in 0..(2 * deg) |-> SumSeq([i \in 1..Len(x) |-> Power(x[i], k)])],
     rhs |-> [k \in 0..deg |-> SumSeq([i \in 1..Len(x) |-> Power(x[i], k) * y[i]])]]

\* np.polynomial.polynomial.Polynomial.fit(x, y, deg)
PolynomialFit(x, y, deg, numpy) ==
    IF Len(x) = 0
    THEN Raised("ValueError")
    ELSE LET lo == x[1]
             hi == x[Len(x)]
         IN  IF lo = hi /\ ~numpy.widens_domain
             THEN Raised("LinAlgError")
             ELSE [kind |-> "Polynomial",
                   coef |-> NormalEquations(x, y, deg),
                   domain |-> IF lo = hi THEN <<lo - 1, hi + 1>> ELSE <<lo, hi>>,
                   degree |-> deg]

\* (xy, trend), or the error of the fit
health_score_trend_polynomial_v1(df, degree, numpy) ==
    LET xy == Trajectory(df)
        trend == PolynomialFit(xy.index, xy.values, degree, numpy)
    IN  IF trend.kind = "raised" THEN trend
        ELSE [kind |-> "tuple", xy |-> xy, trend |-> trend]

\* __init__(self, warmup=3, polyfit_degree=1)
SortWindowedHealthDataframe_init(warmup, polyfit_degree) ==
    [polyfit_degree |-> 1, warmup |-> warmup]

\* the permutations of 1..n
Perms(n) == {f \in [1..n -> 1..n] : \A i, j \in 1..n : f[i] = f[j] => i = j}
\* .sort_values("ts"): quicksort is not stable, so rows of one ts come in any order
sort_values(rows) ==
    {[i \in 1..Len(rows) |-> rows[f[i]]] : f \in
        {g \in Perms(Len(rows)) : \A i \in 1..(Len(rows) - 1) : rows[g[i]].ts <= rows[g[i + 1]].ts}}

RECURSIVE ConcatGroups(_, _)
ConcatGroups(rows, index) ==
    IF index = <<>> THEN <<>>
    ELSE SelectSeq(rows, LAMBDA r : r.ts = Head(index)) \o ConcatGroups(rows, Tail(index))
\* a sort that keeps the rows of one ts in the order they came in (numpy's
\* quicksort on a short array is an insertion sort)
StableSort(rows) == ConcatGroups(rows, SortedIndex(GroupKeys(rows)))
\* what the sort of the build gives for rows
SortOrders(stable, rows) == IF stable THEN {StableSort(rows)} ELSE sort_values(rows)

Column(df, name) == [i \in 1..Len(df) |-> df[i][name]]

\* a generator that ended: what it yielded, and whether logger.error was called
Returned(outputs, logged) == [kind |-> "returned", outputs |-> outputs, logged |-> logged]

\* len(df.index) < self.warmup - 1
BelowWarmupOffByOne(self, df) == Len(df) < self.warmup - 1
\* len(df.index) < self.warmup, line 220
BelowWarmup(self, df) == Len(df) < self.warmup

\* except ValueError, line 226
Catches(error, numpy) == IsInstance(error, "ValueError", numpy)

\* lines 220-254, df being the sorted frame of lines 215-219
SortWindowedHealthDataframe_process(self, key, df, window, numpy) ==
    IF BelowWarmup(self, df)
    THEN Returned(<<>>, FALSE)
    ELSE LET fitted == health_score_trend_polynomial_v1(df, self.polyfit_degree, numpy)
         IN  IF fitted.kind = "raised"
             THEN IF Catches(fitted.error, numpy)
                  THEN Returned(<<>>, TRUE)
                  ELSE fitted
             ELSE Returned(
                    <<<<key,
                        [print_session |-> key,
                         poly_coef |-> fitted.trend.coef,
                         poly_domain |-> fitted.trend.domain,
                         poly_roots |-> [roots_of |-> fitted.trend.coef],
                         poly_degree |-> fitted.trend.degree,
                         cumsum |-> fitted.xy.values,
                         metadata |-> df[1].metadata,
                         health_score |-> Column(df, "health_score"),
                         health_weight |-> Column(df, "health_weight"),
                         detection_class |-> Column(df, "detection_class"),
                         detection_score |-> Column(df, "detection_score")]>>>>,
                    FALSE)

(***************************************************************************)
(* Stateful Session Monitor and Render Trigger Builder.                    *)
(***************************************************************************)
\* FAILURES = CombiningValueStateSpec("failures", sum): read() of a cell that
\* nothing was added to is sum of nothing
FailuresInit == [key \in Sessions |-> 0]
failures_read(state, key) == state[key]
failures_add(state, key, n) == [state EXCEPT ![key] = @ + n]

\* batches of HealthTrends that a firing delivers
TrendBatches == {<<"trend_a">>, <<"trend_a", "trend_b">>}

\* one cell shared by every key
MonitorSharedCell(state, element) ==
    LET key == element[1]
        values == element[2]
    IN  [current_failures |-> failures_read(state, key),
         failures |-> [k \in DOMAIN state |-> state[k] + 1],
         outputs |-> <<<<key, values>>>>]

\* one output per HealthTrend of the batch
MonitorFlatteningBatch(state, element) ==
    LET key == element[1]
        values == element[2]
    IN  [current_failures |-> failures_read(state, key),
         failures |-> failures_add(state, key, 1),
         outputs |-> [i \in 1..Len(values) |-> <<key, <<values[i]>>>>]]

\* process(element, pane_info, window, failures), lines 339-352
MonitorHealthStateful_process(state, element) ==
    LET key == element[1]
        values == element[2]
        current_failures == failures_read(state, key)
    IN  [current_failures |-> current_failures,
         failures |-> failures_add(state, key, 1),
         outputs |-> <<<<key, values>>>>]

\* os.path.join of the components
PathJoin(parts) == parts

\* events of a session, of which the first gives the metadata
TelemetryBatches(key) ==
    {<<[client_version |-> "v1", print_session |-> key, user_id |-> 7,
        octoprint_device_id |-> dev, cloudiot_device_id |-> "c1"]>> : dev \in Devices}

\* process(element, window, pane_info), lines 273-307
CreateVideoRenderMessage_process(self, element, pane_info, datestamp) ==
    LET key == element[1]
        values == element[2]
        gcs_input == PathJoin(<<self.in_base_path, key>>)
        gcs_output == PathJoin(<<self.out_base_path, key, "annotated_video.mp4">>)
        suffix == PathJoin(<<key, datestamp, "annotated_video.mp4">>)
        cdn_output == PathJoin(<<self.cdn_base_path, self.cdn_upload_path>> \o suffix)
        cdn_relative == PathJoin(<<self.cdn_upload_path>> \o suffix)
        metadata == [client_version |-> values[1].client_version,
                     print_session |-> values[1].print_session,
                     user_id |-> values[1].user_id,
                     octoprint_device_id |-> values[1].octoprint_device_id,
                     cloudiot_device_id |-> values[1].cloudiot_device_id]
        msg == [print_session |-> key, metadata |-> metadata,
                event_type |-> "video_done", gcs_input |-> gcs_input,
                gcs_output |-> gcs_output, cdn_output |-> cdn_output,
                cdn_relative |-> cdn_relative, bucket |-> self.bucket]
    IN  <<msg>>

RenderSelf ==
    [in_base_path |-> "in", out_base_path |-> "out", cdn_base_path |-> "cdn",
     cdn_upload_path |-> "uploads", bucket |-> "bucket"]

(***************************************************************************)
(* State: one call of each operation, its arguments drawn by the initial   *)
(* state and its result stored by the action that makes the call.          *)
(***************************************************************************)
NotCalled == [called |-> FALSE]

\* no pane has entered the pipeline
FlowIdle ==
    [key \in Sessions |-> [in_flight |-> FALSE, at |-> 0, pane |-> 0, path |-> <<>>,
                            emitted |-> 0, left |-> 0, last_path |-> <<>>]]

\* no firing has reached the monitor or the render trigger builder
StatefulIdle ==
    /\ failures = FailuresInit
    /\ fired = [key \in Sessions |-> 0]
    /\ mon = NotCalled
    /\ published = [key \in Sessions |-> 0]
    /\ terminal = [key \in Sessions |-> 0]
    /\ panes = [key \in Sessions |-> 0]
    /\ render = NotCalled
    /\ flow = FlowIdle

BatchDetections == {d \in Detections : d.class = 1 /\ d.box = <<0, 0, 1, 1>>}
BatchElements ==
    {AnnotatedMonitoringImage(dev, d) : dev \in Devices, d \in SeqsUpTo(BatchDetections, 1)}
Batches == UNION {[1..k -> BatchElements] : k \in 1..MaxBatch}

InitGeometry ==
    /\ StatefulIdle
    /\ geo \in [called : {FALSE}, box : Boxes, aoi_coords : Boxes, arith : Arithmetics]
    /\ flt = NotCalled
    /\ dofn = NotCalled
    /\ exp = NotCalled
    /\ agg = NotCalled
    /\ pane = NotCalled

InitFilter ==
    /\ StatefulIdle
    /\ geo = NotCalled
    /\ exp = NotCalled
    /\ agg = NotCalled
    /\ pane = NotCalled
    /\ \/ /\ flt \in [called : {FALSE}, element : DetectionSets,
                      calibration : Calibrations, arith : Arithmetics]
          /\ dofn = NotCalled
       \/ /\ flt = NotCalled
          /\ dofn \in [called : {FALSE}, store : Stores, session : {"s1"},
                       elements : Batches, arith : Arithmetics]

\* calc_percent_intersection([box], aoi_coords)
CalcPercentIntersection ==
    /\ geo # NotCalled /\ ~geo.called
    /\ geo' = [geo EXCEPT !.called = TRUE] @@
              [out |-> calc_percent_intersection(<<geo.box>>, geo.aoi_coords, geo.arith)]
    /\ UNCHANGED <<flt, dofn, exp, agg, pane, stateful, flow>>

\* filter_box_annotations(element, calibration=calibration)
FilterBoxAnnotationsCall ==
    /\ flt # NotCalled /\ ~flt.called
    /\ flt' = [flt EXCEPT !.called = TRUE] @@
              [out |-> filter_box_annotations(flt.element, flt.calibration, flt.arith)]
    /\ UNCHANGED <<geo, dofn, exp, agg, pane, stateful, flow>>

\* FilterBoxAnnotations.process((session, elements))
FilterBoxAnnotationsProcess ==
    /\ dofn # NotCalled /\ ~dofn.called
    /\ dofn' = [dofn EXCEPT !.called = TRUE] @@
               [out |-> FilterBoxAnnotations_process(
                            dofn.store, <<dofn.session, dofn.elements>>, dofn.arith)]
    /\ UNCHANGED <<geo, flt, exp, agg, pane, stateful, flow>>

NextGeometry == CalcPercentIntersection
SpecGeometry == InitGeometry /\ [][NextGeometry]_vars

NextFilter == FilterBoxAnnotationsCall \/ FilterBoxAnnotationsProcess
SpecFilter == InitFilter /\ [][NextFilter]_vars

InitExplode ==
    /\ StatefulIdle
    /\ geo = NotCalled
    /\ flt = NotCalled
    /\ dofn = NotCalled
    /\ exp \in [called : {FALSE}, element : NestedTelemetryEvents, window : Windows]
    /\ agg = NotCalled
    /\ pane = NotCalled

\* ExplodeWindowedHealthRecord.process(element, window)
ExplodeProcess ==
    /\ exp # NotCalled /\ ~exp.called
    /\ exp' = [exp EXCEPT !.called = TRUE] @@
              [out |-> ExplodeWindowedHealthRecord_process(exp.element, exp.window)]
    /\ UNCHANGED <<geo, flt, dofn, agg, pane, stateful, flow>>

NextExplode == ExplodeProcess
SpecExplode == InitExplode /\ [][NextExplode]_vars

\* the records of one (session key, window), in the order of their arrival
AggTimestamps == {1, 2}
AggDetections ==
    {d \in [score : ExplodeScores, class : Classes] :
        CATEGORY_INDEX(d.class).health_weight = 0 => d.score = 90}
AggWindow == [start |-> 0, end |-> 4]
AggKey == "s1"
AggRecords(key) ==
    {WindowedHealthRecord(
         Metadata([client_version |-> "v1", print_session |-> key, user_id |-> 7,
                   octoprint_device_id |-> "d1", cloudiot_device_id |-> "c1"],
                  AggWindow.start, AggWindow.end),
         ts, key, d.score, d.class) : ts \in AggTimestamps, d \in AggDetections}
RecordSeqs(key) == UNION {[1..k -> AggRecords(key)] : k \in 1..MaxRecords}
Warmups == {2, 3}
DegreeArgs == {1, 2}

InitAggregate ==
    /\ StatefulIdle
    /\ pane = NotCalled
    /\ geo = NotCalled
    /\ flt = NotCalled
    /\ dofn = NotCalled
    /\ exp = NotCalled
    /\ agg \in [called : {FALSE}, warmup : Warmups, polyfit_degree : DegreeArgs,
                key : {AggKey}, windowed_health_records : RecordSeqs(AggKey),
                window : {AggWindow}, numpy : NumpyBuilds]

\* SortWindowedHealthDataframe(warmup, polyfit_degree).process((key, records), window)
SortProcess ==
    /\ agg # NotCalled /\ ~agg.called
    /\ \E df \in sort_values(agg.windowed_health_records) :
          LET self == SortWindowedHealthDataframe_init(agg.warmup, agg.polyfit_degree)
          IN  agg' = [agg EXCEPT !.called = TRUE] @@
                     [self |-> self,
                      df |-> df,
                      xy |-> IF BelowWarmup(self, df) THEN None ELSE Trajectory(df),
                      out |-> SortWindowedHealthDataframe_process(
                                  self, agg.key, df, agg.window, agg.numpy)]
    /\ UNCHANGED <<geo, flt, dofn, exp, pane, stateful, flow>>

NextAggregate == SortProcess
SpecAggregate == InitAggregate /\ [][NextAggregate]_vars

\* the records of a window that fires twice in accumulating mode
RefireDetections == {[score |-> 90, class |-> 1], [score |-> 80, class |-> 2],
                     [score |-> 90, class |-> 3]}
RefireRecords ==
    {WindowedHealthRecord(
         Metadata([client_version |-> "v1", print_session |-> AggKey, user_id |-> 7,
                   octoprint_device_id |-> "d1", cloudiot_device_id |-> "c1"],
                  AggWindow.start, AggWindow.end),
         ts, AggKey, d.score, d.class) : ts \in AggTimestamps, d \in RefireDetections}
\* the same records in another order of delivery
Redeliveries(records) ==
    {[i \in 1..Len(records) |-> records[f[i]]] : f \in Perms(Len(records))}

InitRefire ==
    /\ StatefulIdle
    /\ geo = NotCalled
    /\ flt = NotCalled
    /\ dofn = NotCalled
    /\ exp = NotCalled
    /\ agg = NotCalled
    /\ pane \in [firings : {0}, stable : BOOLEAN, numpy : NumpyBuilds,
                 self : {SortWindowedHealthDataframe_init(w, 1) : w \in Warmups},
                 key : {AggKey}, window : {AggWindow},
                 windowed_health_records :
                     UNION {[1..k -> RefireRecords] : k \in 1..MaxRecords}]

\* the first pane of the window: process((key, records), window)
FirstFiring ==
    /\ pane # NotCalled /\ pane.firings = 0
    /\ \E df \in SortOrders(pane.stable, pane.windowed_health_records) :
          pane' = [pane EXCEPT !.firings = 1] @@
                  [df |-> df,
                   out |-> SortWindowedHealthDataframe_process(
                               pane.self, pane.key, df, pane.window, pane.numpy)]
    /\ UNCHANGED <<geo, flt, dofn, exp, agg, stateful, flow>>

\* a later pane of the same window: the same DoFn is given the same records
\* again, in any order; the sort is a function, so the same delivery is
\* sorted as before
SecondFiring ==
    /\ pane # NotCalled /\ pane.firings = 1
    /\ \E redelivered \in Redeliveries(pane.windowed_health_records) :
       \E df \in SortOrders(pane.stable, redelivered) :
          /\ redelivered = pane.windowed_health_records => df = pane.df
          /\ pane' = [pane EXCEPT !.firings = 2] @@
                     [redelivered |-> redelivered,
                      df_again |-> df,
                      out_again |-> SortWindowedHealthDataframe_process(
                                        pane.self, pane.key, df, pane.window, pane.numpy)]
    /\ UNCHANGED <<geo, flt, dofn, exp, agg, stateful, flow>>

NextRefire == FirstFiring \/ SecondFiring
SpecRefire == InitRefire /\ [][NextRefire]_vars

Init ==
    /\ geo = NotCalled
    /\ flt = NotCalled
    /\ dofn = NotCalled
    /\ exp = NotCalled
    /\ agg = NotCalled
    /\ pane = NotCalled
    /\ StatefulIdle

\* a window fires for a key: MonitorHealthStateful.process((key, values))
MonitorProcess ==
    /\ \E key \in Sessions, values \in TrendBatches :
          /\ fired[key] < MaxFirings
          /\ LET r == MonitorHealthStateful_process(failures, <<key, values>>)
             IN  /\ failures' = r.failures
                 /\ mon' = [called |-> TRUE, element |-> <<key, values>>,
                            current_failures |-> r.current_failures,
                            outputs |-> r.outputs]
          /\ fired' = [fired EXCEPT ![key] = @ + 1]
    /\ UNCHANGED <<pure, published, terminal, panes, render, flow>>

\* a pane fires for a key: CreateVideoRenderMessage.process((key, values)),
\* with pane_info.is_last telling whether the pane is the final one
RenderProcess ==
    /\ \E key \in Sessions, is_last \in BOOLEAN :
       \E values \in TelemetryBatches(key) :
          /\ panes[key] < MaxFirings
          /\ LET outputs == CreateVideoRenderMessage_process(
                                RenderSelf, <<key, values>>, [is_last |-> is_last], "date")
             IN  /\ published' = [published EXCEPT ![key] = @ + Len(outputs)]
                 /\ render' = [called |-> TRUE, element |-> <<key, values>>,
                               is_last |-> is_last, outputs |-> outputs]
          /\ panes' = [panes EXCEPT ![key] = @ + 1]
          /\ terminal' = [terminal EXCEPT ![key] = @ + (IF is_last THEN 1 ELSE 0)]
    /\ UNCHANGED <<pure, failures, fired, mon, flow>>

Next == MonitorProcess \/ RenderProcess
Spec == Init /\ [][Next]_vars

(***************************************************************************)
(* The pipeline as sliding_window_health.py assembles it: the transforms   *)
(* applied to sliding_window_view to build filtered_health_dataframe, and  *)
(* the one transform applied to filtered_health_dataframe.  The module     *)
(* imports FilterAreaOfInterest from transforms.health, whose detection    *)
(* filter is the class FilterBoxAnnotations.                               *)
(***************************************************************************)
PipelineStages ==
    << "Map(drop_image_data)",            \* "Drop image data"
       "GroupBy(print_session)",          \* "Group alert pipeline by session"
       "FilterAreaOfInterest",            \* "Filter detections below threshold & ..."
       "ExplodeWindowedHealthRecord",
       "GroupBy(print_session)",          \* "Windowed health DataFrame"
       "SortWindowedHealthDataframe",
       "GroupByKey",
       "WriteWindowedParquet" >>          \* "Write SlidingWindow (...) Parquet"

InitPipeline ==
    /\ geo = NotCalled
    /\ flt = NotCalled
    /\ dofn = NotCalled
    /\ exp = NotCalled
    /\ agg = NotCalled
    /\ pane = NotCalled
    /\ StatefulIdle

\* a pane of the sliding window of a key fires and enters at sliding_window_view
PaneFires(key) ==
    /\ ~flow[key].in_flight
    /\ flow[key].pane < MaxFirings
    /\ flow' = [flow EXCEPT ![key] = [@ EXCEPT !.in_flight = TRUE, !.at = 0,
                                               !.pane = @ + 1, !.path = <<>>]]
    /\ UNCHANGED <<pure, stateful>>

\* the next transform of the chain is applied to what the pane carries.  The
\* aggregator emits a HealthTrend or nothing (warm-up, failed fit); the
\* monitor counts the firing; the render trigger builder yields its message.
ApplyTransform(key) ==
    /\ flow[key].in_flight
    /\ flow[key].at < Len(PipelineStages)
    /\ LET fn == PipelineStages[flow[key].at + 1]
           through == [flow[key] EXCEPT !.at = @ + 1, !.path = Append(@, fn)]
       IN  /\ IF fn = "SortWindowedHealthDataframe"
              THEN \E emits \in BOOLEAN :
                      flow' = [flow EXCEPT ![key] =
                                  IF emits THEN [through EXCEPT !.emitted = @ + 1]
                                  ELSE [through EXCEPT !.in_flight = FALSE]]
              ELSE flow' = [flow EXCEPT ![key] = through]
           /\ failures' = IF fn = "MonitorHealthStateful"
                          THEN MonitorHealthStateful_process(
                                   failures, <<key, <<"trend_a">>>>).failures
                          ELSE failures
           /\ published' = IF fn = "CreateVideoRenderMessage"
                           THEN [published EXCEPT ![key] = @ + 1]
                           ELSE published
    /\ UNCHANGED <<pure, fired, mon, terminal, panes, render>>

\* the last transform has been applied: nothing further consumes the output
LeavesPipeline(key) ==
    /\ flow[key].in_flight
    /\ flow[key].at = Len(PipelineStages)
    /\ flow' = [flow EXCEPT ![key] = [@ EXCEPT !.in_flight = FALSE, !.left = @ + 1,
                                               !.last_path = flow[key].path]]
    /\ UNCHANGED <<pure, stateful>>

NextPipeline ==
    \E key \in Sessions : PaneFires(key) \/ ApplyTransform(key) \/ LeavesPipeline(key)
SpecPipeline == InitPipeline /\ [][NextPipeline]_vars

(***************************************************************************)
(* What the claims say of the filter and of the geometry.                  *)
(***************************************************************************)
\* the overlap of the code is at least min_calibration_area_overlap
AtLeastMinOverlap(r) ==
    r.kind = "float" /\ r.num * Scale >= MinCalibrationAreaOverlap * r.den

\* keep, as section 4.2 states it
Keep(element, calibration, i) ==
    /\ element.detection_scores[i] > MinScoreThreshold
    /\ calibration # None =>
          AtLeastMinOverlap(percent_intersection_of(element.detection_boxes[i],
                                                    calibration.coordinates, "numpy"))

\* the indices kept, in input order
KeptIndices(element, calibration) ==
    SelectSeq([i \in 1..element.num_detections |-> i],
              LAMBDA i : Keep(element, calibration, i))

ReturnedSet(call) == call.called /\ call.out.kind = "BoxAnnotations"

\* C3: every detection of a DetectionSet that filter_box_annotations returns
\* has a score above the threshold and, under a calibration, an overlap of
\* at least the minimum: it is one of the input's detections that keep holds of.
C3_ReturnedSatisfyKeep ==
    ReturnedSet(flt) =>
        \A j \in 1..Len(flt.out.detection_scores) :
            /\ flt.out.detection_scores[j] > MinScoreThreshold
            /\ \E i \in 1..flt.element.num_detections :
                  /\ Keep(flt.element, flt.calibration, i)
                  /\ flt.out.detection_scores[j] = flt.element.detection_scores[i]
                  /\ flt.out.detection_boxes[j] = flt.element.detection_boxes[i]
                  /\ flt.out.detection_classes[j] = flt.element.detection_classes[i]

\* a call that returned a detection and dropped one at the threshold
C3_Witness ==
    /\ ReturnedSet(flt)
    /\ flt.out.num_detections = 1
    /\ flt.element.num_detections = 2
    /\ \E i \in 1..2 : flt.element.detection_scores[i] = MinScoreThreshold

\* C4: for every input, with or without a calibration, filter_box_annotations
\* returns without error exactly the kept detections in input order, with
\* num_detections the number kept and the four arrays index-aligned.
C4_ReturnsKeptSubsequence ==
    flt.called =>
        LET kept == KeptIndices(flt.element, flt.calibration)
        IN  /\ flt.out.kind = "BoxAnnotations"
            /\ flt.out.num_detections = Len(kept)
            /\ flt.out.detection_scores =
                   [j \in 1..Len(kept) |-> flt.element.detection_scores[kept[j]]]
            /\ flt.out.detection_boxes =
                   [j \in 1..Len(kept) |-> flt.element.detection_boxes[kept[j]]]
            /\ flt.out.detection_classes =
                   [j \in 1..Len(kept) |-> flt.element.detection_classes[kept[j]]]
            /\ flt.out.health_weights =
                   [j \in 1..Len(kept) |->
                       CATEGORY_INDEX(flt.element.detection_classes[kept[j]]).health_weight]

\* C5: when the store holds no calibration for the device of the session,
\* FilterBoxAnnotations.process raises nothing and keeps exactly the
\* detections whose score is above the threshold.
C5_MissingCalibrationFallsBack ==
    (dofn.called /\ dofn.store[dofn.elements[1].octoprint_device_id] = None) =>
        /\ dofn.out.kind = "output"
        /\ \A i \in 1..Len(dofn.elements) :
              dofn.out.elements[i].detection_scores =
                  SelectSeq(dofn.elements[i].detection_scores,
                            LAMBDA sc : sc > MinScoreThreshold)

Contained(box, aoi) ==
    aoi[1] <= box[1] /\ aoi[2] <= box[2] /\ box[3] <= aoi[3] /\ box[4] <= aoi[4]
Disjoint(box, aoi) ==
    box[3] < aoi[1] \/ aoi[3] < box[1] \/ box[4] < aoi[2] \/ aoi[4] < box[2]
\* the left or the right half, or the upper or the lower half, is in the AOI
HalfInside(box, aoi) ==
    \/ /\ aoi[2] <= box[2] /\ box[4] <= aoi[4]
       /\ 2 * (Min(aoi[3], box[3]) - Max(aoi[1], box[1])) = box[3] - box[1]
       /\ box[3] > box[1] /\ box[4] > box[2]
    \/ /\ aoi[1] <= box[1] /\ box[3] <= aoi[3]
       /\ 2 * (Min(aoi[4], box[4]) - Max(aoi[2], box[2])) = box[4] - box[2]
       /\ box[3] > box[1] /\ box[4] > box[2]

\* C6: for every box and AOI of the grid calc_percent_intersection returns a
\* number within [0,1]: 1 for a box inside the AOI, 0 for a disjoint box, 1/2
\* for a box with an axis-aligned half inside.
C6_OverlapWithinUnitInterval ==
    geo.called =>
        /\ geo.out.kind = "array"
        /\ LET r == geo.out.values[1]
           IN  /\ r.kind = "float"
               /\ 0 <= r.num /\ r.num <= r.den /\ r.den > 0
               /\ Contained(geo.box, geo.aoi_coords) => r.num = r.den
               /\ Disjoint(geo.box, geo.aoi_coords) => r.num = 0
               /\ HalfInside(geo.box, geo.aoi_coords) => 2 * r.num = r.den

(***************************************************************************)
(* What the claims say of the exploder.                                    *)
(***************************************************************************)
\* C7: for a DetectionSet of N detections the exploder returns N records, the
\* i-th from the i-th detection, all with the metadata of the element and the
\* bounds of the window, each with the table weight of its class as
\* health_weight and health_weight * detection_score as health_score.
C7_OneRecordPerDetection ==
    exp.called =>
        /\ Len(exp.out) = exp.element.num_detections
        /\ \A i \in 1..Len(exp.out) :
              LET r == exp.out[i]
              IN  /\ r.detection_score = exp.element.detection_scores[i]
                  /\ r.detection_class = exp.element.detection_classes[i]
                  /\ r.ts = exp.element.ts
                  /\ r.print_session = exp.element.print_session
                  /\ r.metadata.print_session = exp.element.print_session
                  /\ r.metadata.user_id = exp.element.user_id
                  /\ r.metadata.client_version = exp.element.client_version
                  /\ r.metadata.octoprint_device_id = exp.element.octoprint_device_id
                  /\ r.metadata.cloudiot_device_id = exp.element.cloudiot_device_id
                  /\ r.metadata.window_start = exp.window.start
                  /\ r.metadata.window_end = exp.window.end
                  /\ r.metadata = exp.out[1].metadata
                  /\ r.health_weight = CATEGORY_INDEX(r.detection_class).health_weight
                  /\ r.health_score = r.health_weight * r.detection_score

\* two detections of different classes were exploded into two records
C7_Witness ==
    /\ exp.called
    /\ exp.element.num_detections = 2
    /\ Len(exp.out) = 2
    /\ exp.out[1].health_score = 90
    /\ exp.out[2].health_score = -80

(***************************************************************************)
(* What the claims say of the aggregator.                                  *)
(***************************************************************************)
Emitted(call) == call.out.kind = "returned" /\ Len(call.out.outputs) > 0

\* C8: a firing emits a HealthTrend only if it was given at least warm-up
\* records; with fewer it emits nothing and raises nothing; no firing emits
\* more than one HealthTrend.
C8_WarmupGatesEmission ==
    agg.called =>
        /\ Emitted(agg) => Len(agg.windowed_health_records) >= agg.warmup
        /\ Len(agg.windowed_health_records) < agg.warmup =>
              agg.out.kind = "returned" /\ agg.out.outputs = <<>>
        /\ agg.out.kind = "returned" => Len(agg.out.outputs) <= 1

\* one firing below the warm-up that emitted nothing
C8_Witness ==
    /\ agg.called
    /\ agg.warmup = 3
    /\ Len(agg.windowed_health_records) = 2
    /\ agg.out = Returned(<<>>, FALSE)

Records(call) == call.windowed_health_records
RecordIndices(call) == 1..Len(Records(call))
\* max health_score of the records of weight > 0 at t, or 0; min of those of
\* weight < 0 at t, or 0
PositiveAt(call, t) ==
    LET S == {Records(call)[i].health_score :
                 i \in {j \in RecordIndices(call) :
                           Records(call)[j].ts = t /\ Records(call)[j].health_weight > 0}}
    IN  IF S = {} THEN 0 ELSE CHOOSE v \in S : \A u \in S : u <= v
NegativeAt(call, t) ==
    LET S == {Records(call)[i].health_score :
                 i \in {j \in RecordIndices(call) :
                           Records(call)[j].ts = t /\ Records(call)[j].health_weight < 0}}
    IN  IF S = {} THEN 0 ELSE CHOOSE v \in S : \A u \in S : v <= u

RECURSIVE RunningSum(_, _, _)
RunningSum(call, T, t) ==
    IF {u \in T : u <= t} = {} THEN 0
    ELSE LET last == CHOOSE u \in T : u <= t /\ \A w \in T : w <= t => w <= u
         IN  PositiveAt(call, last) + NegativeAt(call, last)
                 + RunningSum(call, T \ {last}, t)

\* the trajectory has exactly the timestamps T, ascending, and its entry at t
\* is the running sum of the per-timestamp values up to t
IsTrajectoryOver(call, T) ==
    /\ Len(call.xy.index) = Cardinality(T)
    /\ {call.xy.index[j] : j \in 1..Len(call.xy.index)} = T
    /\ \A j \in 1..(Len(call.xy.index) - 1) : call.xy.index[j] < call.xy.index[j + 1]
    /\ \A j \in 1..Len(call.xy.index) :
          call.xy.values[j] = RunningSum(call, T, call.xy.index[j])

AllTimestamps(call) == {Records(call)[i].ts : i \in RecordIndices(call)}
WeightedTimestamps(call) ==
    {Records(call)[i].ts : i \in {j \in RecordIndices(call) : Records(call)[j].health_weight # 0}}

FitReached(call) == call.called /\ call.xy # None

C10_FitFailureContained ==
    (agg.called /\ Len(agg.windowed_health_records) >= agg.warmup) =>
        /\ agg.out.kind = "returned"
        /\ \/ Len(agg.out.outputs) = 1
           \/ agg.out.outputs = <<>> /\ agg.out.logged

(***************************************************************************)
(* What the claims say of the monitor and of the render trigger builder.   *)
(***************************************************************************)
\* C1: every invocation of MonitorHealthStateful.process for a key raises the
\* counter of that key by exactly 1 and leaves every other counter as it was:
\* the counter of a key is the number of firings for it, and never decreases.
C1_CounterCountsFirings ==
    /\ [](\A key \in Sessions : failures[key] = fired[key])
    /\ [][\A key \in Sessions :
             /\ failures'[key] = failures[key] + (fired'[key] - fired[key])
             /\ failures'[key] >= failures[key]
             /\ mon' # mon =>
                   (fired'[key] - fired[key]) = (IF mon'.element[1] = key THEN 1 ELSE 0)]_vars

\* firings for two keys were interleaved
C1_Witness ==
    /\ failures["s1"] = 2
    /\ failures["s2"] = 1
    /\ mon.called /\ mon.element[1] = "s1" /\ mon.current_failures = 1

\* C2: the render trigger builder emits one message for a firing of the final
\* pane and none for any other firing, so the messages emitted for a key are
\* as many as its terminal firings.
C2_OneMessagePerTerminalFiring ==
    /\ \A key \in Sessions : published[key] = terminal[key]
    /\ render.called => Len(render.outputs) = (IF render.is_last THEN 1 ELSE 0)

(***************************************************************************)
(* What the claims say of a window that fires again.                       *)
(***************************************************************************)
\* C11: when a window fires again with the same accumulated records, in
\* whatever order they are delivered, the aggregator yields what it yielded
\* before: the same trajectory, coefficients and per-record arrays.
C11_RefireYieldsIdenticalTrend ==
    (pane # NotCalled /\ pane.firings = 2) => pane.out_again = pane.out

(***************************************************************************)
(* What the claims say of one invocation of the monitor.                   *)
(***************************************************************************)
\* C12: an invocation of MonitorHealthStateful.process on (key, batch) outputs
\* exactly one element, (key, batch) with the batch as it came in, and changes
\* no state other than the counter of that key.
C12_PassThroughChangesOneCounter ==
    [][fired' # fired =>
          /\ Len(mon'.outputs) = 1
          /\ mon'.outputs[1] = mon'.element
          /\ mon'.outputs[1][2] \in TrendBatches
          /\ failures'[mon'.element[1]] # failures[mon'.element[1]]
          /\ \A key \in Sessions \ {mon'.element[1]} : failures'[key] = failures[key]
          /\ UNCHANGED <<published, terminal, panes, render>>]_vars

\* a batch of two HealthTrends went through for a key, after firings for both
\* keys had been counted
C12_Witness ==
    /\ mon.called
    /\ mon.element = <<"s2", <<"trend_a", "trend_b">>>>
    /\ mon.outputs = <<mon.element>>
    /\ mon.current_failures = 1
    /\ failures = [key \in Sessions |-> IF key = "s2" THEN 2 ELSE 1]

(***************************************************************************)
(* What the claims say of the degree of the fit.                           *)
(***************************************************************************)
\* C14: the aggregator fits with the degree it was constructed with, and the
\* HealthTrend it emits carries that degree; the degree is 1 only when the
\* constructor was given none (the default, 1).
C14_DegreeAsConstructed ==
    agg.called =>
        /\ agg.self.polyfit_degree = agg.polyfit_degree
        /\ Emitted(agg) => agg.out.outputs[1][2].poly_degree = agg.polyfit_degree

(***************************************************************************)
(* What the claims say of the assembled pipeline.                          *)
(***************************************************************************)
\* the five components, as the pipeline module names them
Components ==
    {"FilterAreaOfInterest", "ExplodeWindowedHealthRecord", "SortWindowedHealthDataframe",
     "MonitorHealthStateful", "CreateVideoRenderMessage"}
StageOrder ==
    <<"FilterAreaOfInterest", "ExplodeWindowedHealthRecord", "SortWindowedHealthDataframe",
      "MonitorHealthStateful", "CreateVideoRenderMessage">>

\* C13: every HealthTrend the aggregator emits for a key is counted by the
\* monitor before it leaves the pipeline, a render message is produced only
\* after the monitor, and the components a HealthTrend went through are, in
\* order, the detection filter, the exploder, the aggregator, the monitor and
\* the render trigger builder.
C13_TrendPassesMonitorThenRender ==
    \A key \in Sessions :
        /\ flow[key].left <= failures[key]
        /\ published[key] <= failures[key]
        /\ flow[key].left > 0 =>
              SelectSeq(flow[key].last_path, LAMBDA fn : fn \in Components) = StageOrder

====
